---- MODULE Spec2Model ----
(***************************************************************************)
(* Model of the A-CEEI price-search engine of fairpyx:                     *)
(*   fairpyx/algorithms/tabu_search.py  (ALGORITHM 3: Tabu search)         *)
(*   fairpyx/algorithms/ACEEI.py        (bundle enumeration, window mode)  *)
(*                                                                         *)
(* Money.  Every price, budget, step size and epsilon is a multiple of     *)
(* sqrt(0.5), the increment of the individual price adjustment, and is     *)
(* written as that multiple: the integer 3 stands for 3 * sqrt(0.5).       *)
(* Agents and items are numbered in the order of instance.agents and       *)
(* instance.items.  A bundle is the set of its items; a Python list is a   *)
(* sequence.  A norm is kept as its square (the sum of the squares of the  *)
(* integer excess demands): the code only tests a norm for zero and        *)
(* compares two norms, and both are the same on the squares.               *)
(***************************************************************************)
EXTENDS Integers, Sequences, FiniteSets, TLC

(* ------------------------------ bounds -------------------------------- *)
NumAgents == 2
NumItems == 3
MaxItemCapacity == 2
MaxAgentCapacity == 2
MaxPrice == 3
MaxIterations == 6
NumStudents == 3
PriceRange == 24

Agents == 1..NumAgents
Items == 1..NumItems

(* value rows an agent may have: rising, falling, one favourite course *)
ValuationRows ==
    { [j \in Items |-> j], [j \in Items |-> NumItems + 1 - j],
      [j \in Items |-> IF j = 1 THEN 2 ELSE 1] }

\* a student who wants the first course only and values the others at 0
OneWantedCourse == [j \in Items |-> IF j = 1 THEN 1 ELSE 0]

\* the rows the value tables below are computed for
TableRows == ValuationRows \cup {OneWantedCourse}

\* every agent has the same capacity, as in Instance(agent_capacities=2):
\* one course each, or MaxAgentCapacity courses each
AgentCapacities == { [a \in Agents |-> c] : c \in {1, MaxAgentCapacity} }

\* seats: one everywhere, many everywhere, or one contested course
ItemCapacities ==
    { [j \in Items |-> 1], [j \in Items |-> MaxItemCapacity],
      [j \in Items |-> IF j = 1 THEN 1 ELSE MaxItemCapacity] }

\* the first student against the others
Valuations ==
    { [a \in Agents |-> IF a = 1 THEN first ELSE others] :
        first \in ValuationRows, others \in ValuationRows }

Instances ==
    [ valuations : Valuations,
      agent_capacities : AgentCapacities,
      item_capacities : ItemCapacities ]

\* a poor and a rich student
BudgetValues == {3, 16}

\* the first student against the others
Budgets(values) ==
    { [a \in Agents |-> IF a = 1 THEN first ELSE others] :
        first \in values, others \in values }

InitialPrices ==
    { [j \in Items |-> 2], [j \in Items |-> 3], [j \in Items |-> 1 + j] }

\* the step-size set, in the order in which the set is iterated
DeltaValues == { <<1>>, <<2, 1>> }

EpsilonValues == {1, 2}

(* ------------------------- program constants -------------------------- *)
\* np.sqrt(0.5), the unit of money of this model
SqrtHalf == 1
\* for _ in range(10)
AdjustmentSteps == 10
\* if len(new_neighbors) >= 35
MaxIndividualNeighbors == 35
\* float("inf")
Inf == -1
\* max_valuation = -1
NoValuation == -1

(* --------------------------- the instance ----------------------------- *)
agent_capacity(instance, student) == instance.agent_capacities[student]
item_capacity(instance, course) == instance.item_capacities[course]

RECURSIVE SumOver(_, _, _)
\* sum(f[j] for j in S), the items taken in instance order
SumOver(f, S, j) ==
    IF j = 0 THEN 0
    ELSE SumOver(f, S, j - 1) + (IF j \in S THEN f[j] ELSE 0)

\* Instance.agent_bundle_value for every value row and bundle, computed once
BundleValues ==
    [row \in TableRows |->
        [bundle \in SUBSET Items |-> SumOver(row, bundle, NumItems)]]

agent_bundle_value(instance, student, bundle) ==
    BundleValues[instance.valuations[student]][bundle]

\* a faulty price_combination: the price of the cheapest course of the
\* combination instead of the sum
cheapest_course_price(prices, combination) ==
    IF combination = {} THEN 0
    ELSE LET course == CHOOSE j \in combination :
                           \A i \in combination : prices[j] <= prices[i]
         IN  prices[course]

\* sum(prices[course] for course in combination)
price_combination(prices, combination) == SumOver(prices, combination, NumItems)

RECURSIVE combinations(_, _)
\* itertools.combinations(items[start..], r): lexicographic in item order
combinations(start, r) ==
    IF r = 0 THEN << {} >>
    ELSE IF start > NumItems THEN << >>
    ELSE LET with == combinations(start + 1, r - 1)
         IN  [k \in 1..Len(with) |-> {start} \cup with[k]]
                 \o combinations(start + 1, r)

RECURSIVE combinations_up_to(_)
combinations_up_to(r) ==
    IF r = 0 THEN << >> ELSE combinations_up_to(r - 1) \o combinations(1, r)

\* the lists for every capacity, computed once
CombinationsLists == [r \in 0..MaxAgentCapacity |-> combinations_up_to(r)]

\* for r in range(1, capacity + 1): extend(combinations(instance.items, r))
combinations_courses_list(instance, student) ==
    CombinationsLists[agent_capacity(instance, student)]

RECURSIVE sorted_walk(_, _, _)
\* the first k elements of list, descending by keys, equal keys in list order
sorted_walk(list, keyOf, k) ==
    IF k = 0 THEN << >>
    ELSE LET before == sorted_walk(list, keyOf, k - 1)
         IN  SelectSeq(before, LAMBDA i : keyOf[i] >= keyOf[k]) \o << k >>
                 \o SelectSeq(before, LAMBDA i : keyOf[i] < keyOf[k])

\* sorted(list, key=..., reverse=True), keyOf[i] the key of list[i]: a
\* stable sort
sorted_reverse(list, keyOf) ==
    LET order == sorted_walk(list, keyOf, Len(list))
    IN  [p \in 1..Len(list) |-> list[order[p]]]

(* ----------------------- excess demand (4.2) -------------------------- *)
\* An allocation is a function student -> bundle; the dict {} is <<>>.
\* keys(allocation) is the order in which the code built the dict: every
\* dict built by this program is filled in the order of instance.agents.
keys(allocation) ==
    LET D == DOMAIN allocation
    IN  [k \in 1..Cardinality(D) |->
            CHOOSE a \in D : Cardinality({b \in D : b < a}) = k - 1]

RECURSIVE in_some_bundle(_, _, _, _)
\* a faulty sum_allocation: = 1 instead of += 1
in_some_bundle(course, allocation, order, k) ==
    IF k = 0 THEN 0
    ELSE IF course \in allocation[order[k]] THEN 1
    ELSE in_some_bundle(course, allocation, order, k - 1)

RECURSIVE sum_allocation(_, _, _, _)
\* for student, bundle in allocation.items(): if course in bundle: += 1
sum_allocation(course, allocation, order, k) ==
    IF k = 0 THEN 0
    ELSE sum_allocation(course, allocation, order, k - 1)
         + (IF course \in allocation[order[k]] THEN 1 ELSE 0)

\* order: the iteration order of allocation.items()
excess_demand(instance, allocation, order) ==
    [course \in Items |->
        sum_allocation(course, allocation, order, Len(order))
            - item_capacity(instance, course)]

\* a faulty clipped_excess_demand: the floor without the test of the price
clipped_at_every_price(instance, prices, allocation, order) ==
    LET z == excess_demand(instance, allocation, order)
    IN  [course \in Items |-> IF z[course] > 0 THEN z[course] ELSE 0]

clipped_excess_demand(instance, prices, allocation, order) ==
    LET z == excess_demand(instance, allocation, order)
    IN  [course \in Items |->
            IF prices[course] = 0
            THEN (IF z[course] > 0 THEN z[course] ELSE 0)
            ELSE z[course]]

RECURSIVE SumSquares(_, _)
SumSquares(z, j) ==
    IF j = 0 THEN 0 ELSE SumSquares(z, j - 1) + z[j] * z[j]

\* np.linalg.norm(values), kept squared
linalg_norm(z) == SumSquares(z, NumItems)

\* a < b on norms, either possibly float("inf")
norm_less(a, b) ==
    IF a = Inf THEN FALSE ELSE IF b = Inf THEN TRUE ELSE a < b

(* ------------------- bundle enumerator, fixed budget ------------------ *)
\* sorted(combinations_courses_list, key=valuation_function, reverse=True)
\* for every value row and capacity, computed once
SortedByValue ==
    [row \in TableRows |->
        [capacity \in 1..MaxAgentCapacity |->
            LET list == CombinationsLists[capacity]
                valuation_function(combination) == BundleValues[row][combination]
            IN  sorted_reverse(list,
                    [i \in 1..Len(list) |-> valuation_function(list[i])])]]

RECURSIVE best_walk_without_ties(_, _, _, _, _, _, _, _)
\* a faulty best_walk: > in place of >=, which keeps the first best bundle only
best_walk_without_ties(instance, initial_budgets, student, prices, sorted, k, max_valuation, kept) ==
    IF k > Len(sorted) THEN kept
    ELSE LET combination == sorted[k]
             current_valuation == agent_bundle_value(instance, student, combination)
         IN  IF price_combination(prices, combination) <= initial_budgets[student]
                /\ current_valuation > max_valuation
             THEN best_walk_without_ties(instance, initial_budgets, student, prices,
                      sorted, k + 1, current_valuation, << combination >>)
             ELSE best_walk_without_ties(instance, initial_budgets, student, prices,
                      sorted, k + 1, max_valuation, kept)

RECURSIVE best_walk(_, _, _, _, _, _, _, _)
\* lines 315-324: the walk over combinations_courses_sorted
best_walk(instance, initial_budgets, student, prices, sorted, k, max_valuation, kept) ==
    IF k > Len(sorted) THEN kept
    ELSE LET combination == sorted[k]
             current_valuation == agent_bundle_value(instance, student, combination)
         IN  IF price_combination(prices, combination) <= initial_budgets[student]
                /\ current_valuation >= max_valuation
             THEN best_walk(instance, initial_budgets, student, prices, sorted, k + 1,
                            current_valuation,
                            (IF current_valuation > max_valuation THEN << >> ELSE kept)
                                \o << combination >>)
             ELSE best_walk(instance, initial_budgets, student, prices, sorted, k + 1,
                            max_valuation, kept)

\* a faulty all_combinations: lines 326-327 left out, so that a student who
\* can afford nothing has no bundle at all
all_combinations_or_none(instance, initial_budgets, student, prices) ==
    best_walk(instance, initial_budgets, student, prices,
              SortedByValue[instance.valuations[student]][agent_capacity(instance, student)],
              1, NoValuation, << >>)

\* all_combinations[student] of student_best_bundles
all_combinations(instance, initial_budgets, student, prices) ==
    LET combinations_courses_sorted ==
            SortedByValue[instance.valuations[student]][agent_capacity(instance, student)]
        kept == best_walk(instance, initial_budgets, student, prices,
                          combinations_courses_sorted, 1, NoValuation, << >>)
    IN  IF kept = << >> THEN << {} >> ELSE kept

RECURSIVE product(_, _)
\* itertools.product(lists[1], ..., lists[n]): the last list varies fastest
product(lists, n) ==
    IF n = 0 THEN << << >> >>
    ELSE LET heads == product(lists, n - 1)
             last == lists[n]
         IN  [k \in 1..(Len(heads) * Len(last)) |->
                 Append(heads[((k - 1) \div Len(last)) + 1],
                        last[((k - 1) % Len(last)) + 1])]

\* lines 331-338: keep the allocations in which every student can pay
valid_allocations(prices, initial_budgets, all_combinations_list) ==
    LET valid_allocation(allocation) ==
            [student \in {a \in Agents :
                            price_combination(prices, allocation[a])
                                <= initial_budgets[a]} |-> allocation[student]]
    IN  SelectSeq([k \in 1..Len(all_combinations_list) |->
                       valid_allocation(all_combinations_list[k])],
                  LAMBDA valid : Cardinality(DOMAIN valid) = NumAgents)

student_best_bundles(prices, instance, initial_budgets) ==
    valid_allocations(prices, initial_budgets,
        product([student \in Agents |->
                    all_combinations(instance, initial_budgets, student, prices)],
                NumAgents))

RECURSIVE best_combinations_walk(_, _, _, _, _, _, _, _)
\* lines 351-361: the same walk in the worker task
best_combinations_walk(instance, initial_budgets, student, prices, sorted, k, max_valuation, best_combinations) ==
    IF k > Len(sorted) THEN best_combinations
    ELSE LET combination == sorted[k]
             current_valuation == agent_bundle_value(instance, student, combination)
         IN  IF price_combination(prices, combination) <= initial_budgets[student]
                /\ current_valuation >= max_valuation
             THEN best_combinations_walk(instance, initial_budgets, student, prices,
                      sorted, k + 1, current_valuation,
                      (IF current_valuation > max_valuation THEN << >>
                       ELSE best_combinations) \o << combination >>)
             ELSE best_combinations_walk(instance, initial_budgets, student, prices,
                      sorted, k + 1, max_valuation, best_combinations)

compute_best_bundles_for_student(student, instance, prices, initial_budgets) ==
    LET combinations_courses_sorted ==
            SortedByValue[instance.valuations[student]][agent_capacity(instance, student)]
        best_combinations ==
            best_combinations_walk(instance, initial_budgets, student, prices,
                                   combinations_courses_sorted, 1, NoValuation, << >>)
    IN  IF best_combinations = << >> THEN << {} >> ELSE best_combinations

\* the futures are read in submission order, which is instance.agents order
student_best_bundles_with_threads(prices, instance, initial_budgets) ==
    valid_allocations(prices, initial_budgets,
        product([student \in Agents |->
                    compute_best_bundles_for_student(student, instance, prices,
                                                     initial_budgets)],
                NumAgents))

(* -------------------- bundle enumerator, window mode ------------------ *)
\* Instance.agent_maximum_value for every value row and capacity: the best
\* value of a bundle within the capacity
MaximumValues ==
    [row \in TableRows |->
        [capacity \in 1..MaxAgentCapacity |->
            LET list == CombinationsLists[capacity]
                best == CHOOSE i \in 1..Len(list) :
                            \A j \in 1..Len(list) :
                                BundleValues[row][list[j]] <= BundleValues[row][list[i]]
            IN  BundleValues[row][list[best]]]]

agent_maximum_value(instance, student) ==
    MaximumValues[instance.valuations[student]][agent_capacity(instance, student)]

\* ACEEI.py lines 232-239 for every value row and capacity, computed once:
\* the combinations sorted by value plus the full-capacity bonus
SortedByRank ==
    [row \in TableRows |->
        [capacity \in 1..MaxAgentCapacity |->
            LET list == CombinationsLists[capacity]
                large_num == MaximumValues[row][capacity]
                valuation_function(combination) ==
                    BundleValues[row][combination]
                    + (IF Cardinality(combination) = capacity THEN large_num ELSE 0)
            IN  sorted_reverse(list,
                    [i \in 1..Len(list) |-> valuation_function(list[i])])]]

RECURSIVE per_budget_walk_unbounded(_, _, _, _, _, _, _, _)
\* a faulty per_budget_walk: the test against max_budget of line 253 left out
per_budget_walk_unbounded(initial_budgets, student, prices, epsilon, sorted, k, min_price, recorded) ==
    IF k > Len(sorted) THEN recorded
    ELSE LET combination == sorted[k]
             price == price_combination(prices, combination)
             min_budget == initial_budgets[student] - epsilon
         IN  IF price <= min_budget
             THEN (min_budget :> combination) @@ recorded
             ELSE IF min_price = Inf \/ price < min_price
             THEN per_budget_walk_unbounded(initial_budgets, student, prices, epsilon,
                      sorted, k + 1, price, (price :> combination) @@ recorded)
             ELSE per_budget_walk_unbounded(initial_budgets, student, prices, epsilon,
                      sorted, k + 1, min_price, recorded)

RECURSIVE per_budget_walk_overwriting(_, _, _, _, _, _, _, _)
\* a faulty per_budget_walk: <= min_price in place of < min_price, so that a
\* later combination of the same price overwrites the recorded one
per_budget_walk_overwriting(initial_budgets, student, prices, epsilon, sorted, k, min_price, recorded) ==
    IF k > Len(sorted) THEN recorded
    ELSE LET combination == sorted[k]
             price == price_combination(prices, combination)
             min_budget == initial_budgets[student] - epsilon
             max_budget == initial_budgets[student] + epsilon
         IN  IF price <= max_budget /\ price <= min_budget
             THEN (min_budget :> combination) @@ recorded
             ELSE IF price <= max_budget /\ (min_price = Inf \/ price <= min_price)
             THEN per_budget_walk_overwriting(initial_budgets, student, prices,
                      epsilon, sorted, k + 1, price,
                      (price :> combination) @@ recorded)
             ELSE per_budget_walk_overwriting(initial_budgets, student, prices,
                      epsilon, sorted, k + 1, min_price, recorded)

RECURSIVE per_budget_walk(_, _, _, _, _, _, _, _)
\* ACEEI.py lines 248-260; min_price is Inf until a price point is recorded
per_budget_walk(initial_budgets, student, prices, epsilon, sorted, k, min_price, recorded) ==
    IF k > Len(sorted) THEN recorded
    ELSE LET combination == sorted[k]
             price == price_combination(prices, combination)
             min_budget == initial_budgets[student] - epsilon
             max_budget == initial_budgets[student] + epsilon
         IN  IF price <= max_budget /\ price <= min_budget
             THEN (min_budget :> combination) @@ recorded
             ELSE IF price <= max_budget /\ (min_price = Inf \/ price < min_price)
             THEN per_budget_walk(initial_budgets, student, prices, epsilon, sorted,
                                  k + 1, price, (price :> combination) @@ recorded)
             ELSE per_budget_walk(initial_budgets, student, prices, epsilon, sorted,
                                  k + 1, min_price, recorded)

\* best_bundle_per_budget[student]: a map budget -> bundle
best_bundle_per_budget(instance, initial_budgets, student, prices, epsilon) ==
    per_budget_walk(initial_budgets, student, prices, epsilon,
        SortedByRank[instance.valuations[student]][agent_capacity(instance, student)],
        1, Inf, << >>)

student_best_bundle_per_budget(prices, instance, epsilon, initial_budgets) ==
    [student \in DOMAIN instance.valuations |->
        best_bundle_per_budget(instance, initial_budgets, student, prices, epsilon)]

(* ------------------ equivalence-class tracker (4.3) ------------------- *)
\* A predicate lambda p: sum(p[key] for key in keys) op initial_budgets[agent]
\* is the record of what it captured: agent, keys and the budget it reads.
budget_constraint(initial_budgets, student, allocation) ==
    [agent |-> student, keys |-> allocation[student], op |-> "<=",
     budget |-> initial_budgets[student]]

\* lines 551-552: the closure captures keys=allocation[student]
other_bundle_constraint(initial_budgets, student, allocation, combination) ==
    [agent |-> student, keys |-> allocation[student], op |-> ">",
     budget |-> initial_budgets[student]]

\* f(p)
holds(f, p) ==
    IF f.op = "<="
    THEN price_combination(p, f.keys) <= f.budget
    ELSE price_combination(p, f.keys) > f.budget

RECURSIVE other_bundle_constraints(_, _, _, _, _, _, _, _)
\* lines 535-553: the walk over combinations_courses_list for one student
other_bundle_constraints(instance, initial_budgets, student, allocation, list, k, current_alloc, out) ==
    IF k > Len(list) THEN out
    ELSE LET combination == list[k]
         IN  IF combination = allocation[student]
             THEN other_bundle_constraints(instance, initial_budgets, student,
                      allocation, list, k + 1, TRUE, out)
             ELSE IF current_alloc
                     /\ Cardinality(combination) = Cardinality(allocation[student])
             THEN other_bundle_constraints(instance, initial_budgets, student,
                      allocation, list, k + 1, current_alloc, out)
             ELSE IF agent_bundle_value(instance, student, combination)
                        >= agent_bundle_value(instance, student, allocation[student])
             THEN other_bundle_constraints(instance, initial_budgets, student,
                      allocation, list, k + 1, current_alloc,
                      Append(out, other_bundle_constraint(initial_budgets, student,
                                                          allocation, combination)))
             ELSE other_bundle_constraints(instance, initial_budgets, student,
                      allocation, list, k + 1, current_alloc, out)

RECURSIVE equivalent_prices_from(_, _, _, _)
\* lines 525-553: the second loop over instance.agents, from student on
equivalent_prices_from(instance, initial_budgets, allocation, student) ==
    IF student > NumAgents THEN << >>
    ELSE other_bundle_constraints(instance, initial_budgets, student, allocation,
             combinations_courses_list(instance, student), 1, FALSE, << >>)
             \o equivalent_prices_from(instance, initial_budgets, allocation,
                                       student + 1)

find_all_equivalent_prices(instance, initial_budgets, allocation) ==
    [student \in Agents |-> budget_constraint(initial_budgets, student, allocation)]
        \o equivalent_prices_from(instance, initial_budgets, allocation, 1)

\* a faulty is_tabu: any(any(f(p) for f in sublist) for sublist in history)
satisfies_some_predicate(p, history) ==
    \E k \in 1..Len(history) :
        \E i \in 1..Len(history[k]) : holds(history[k][i], p)

\* any(all(f(p) for f in sublist) for sublist in history)
is_tabu(p, history) ==
    \E k \in 1..Len(history) :
        \A i \in 1..Len(history[k]) : holds(history[k][i], p)

(* ----------------------- neighbor generator (4.4) --------------------- *)
\* excess_demand_vector.get(course, 0)
get(excess_demand_vector, course) ==
    IF course \in DOMAIN excess_demand_vector THEN excess_demand_vector[course] ELSE 0

\* a faulty gradient_step: the max(0, ...) of line 604 left out
gradient_step_unfloored(prices, updated_prices, d, excess_demand_vector) ==
    [course \in Items |-> prices[course] + d * get(excess_demand_vector, course)]

\* a faulty gradient_step: the step taken from the vector of the step size
\* before instead of from prices
gradient_step_carried(prices, updated_prices, d, excess_demand_vector) ==
    [course \in Items |->
        LET old == IF updated_prices = << >> THEN prices[course]
                   ELSE updated_prices[course]
            moved == old + d * get(excess_demand_vector, course)
        IN  IF moved > 0 THEN moved ELSE 0]

\* lines 603-604: one pass over prices.items(); updated_prices is the dict
\* left by the pass before, every key of which is written again
gradient_step(prices, updated_prices, d, excess_demand_vector) ==
    [course \in Items |->
        LET moved == prices[course] + d * get(excess_demand_vector, course)
        IN  IF moved > 0 THEN moved ELSE 0]

RECURSIVE gradient_walk(_, _, _, _, _, _, _)
\* lines 602-607: the loop over delta
gradient_walk(prices, delta, excess_demand_vector, history, k, updated_prices, new_neighbors) ==
    IF k > Len(delta) THEN new_neighbors
    ELSE LET updated == gradient_step(prices, updated_prices, delta[k],
                                      excess_demand_vector)
         IN  gradient_walk(prices, delta, excess_demand_vector, history, k + 1, updated,
                 IF is_tabu(updated, history) THEN new_neighbors
                 ELSE Append(new_neighbors, updated))

\* delta: the step sizes in the iteration order of the set
find_gradient_neighbors(prices, delta, excess_demand_vector, history) ==
    gradient_walk(prices, delta, excess_demand_vector, history, 1, << >>, << >>)

differ_in_one_value(original_allocation, new_allocation, course) ==
    LET differing == {key \in DOMAIN original_allocation :
                        /\ key \in DOMAIN new_allocation
                        /\ original_allocation[key] # new_allocation[key]}
    IN  /\ Cardinality(differing) = 1
        /\ LET diff_course == CHOOSE key \in differing : TRUE
           IN  /\ course \in original_allocation[diff_course]
               /\ course \notin new_allocation[diff_course]

\* if use_threads: ..._with_threads(...) else: student_best_bundles(...)
best_bundles(prices, instance, initial_budgets, use_threads) ==
    IF use_threads THEN student_best_bundles_with_threads(prices, instance, initial_budgets)
    ELSE student_best_bundles(prices, instance, initial_budgets)

RECURSIVE raise_price_walk_until_hit(_, _, _, _, _, _, _, _, _)
\* a faulty raise_price_walk: the walk ends at the first tabu vector and at
\* the first vector with a matching allocation, which is appended once
raise_price_walk_until_hit(instance, initial_budgets, history, updated_prices, course, allocation, use_threads, step, new_neighbors) ==
    IF step > AdjustmentSteps THEN new_neighbors
    ELSE LET updated == [updated_prices EXCEPT ![course] = @ + SqrtHalf]
         IN  IF is_tabu(updated, history) THEN new_neighbors
             ELSE LET new_allocations ==
                          best_bundles(updated, instance, initial_budgets, use_threads)
                      hits == SelectSeq(new_allocations,
                                  LAMBDA new_allocation :
                                      differ_in_one_value(allocation, new_allocation,
                                                          course))
                  IN  IF Len(hits) > 0 THEN Append(new_neighbors, updated)
                      ELSE raise_price_walk_until_hit(instance, initial_budgets,
                               history, updated, course, allocation, use_threads,
                               step + 1, new_neighbors)

RECURSIVE raise_price_walk(_, _, _, _, _, _, _, _, _)
\* lines 726-738: the steps of one course with positive excess demand
raise_price_walk(instance, initial_budgets, history, updated_prices, course, allocation, use_threads, step, new_neighbors) ==
    IF step > AdjustmentSteps THEN new_neighbors
    ELSE LET updated == [updated_prices EXCEPT ![course] = @ + SqrtHalf]
         IN  IF is_tabu(updated, history)
             THEN raise_price_walk(instance, initial_budgets, history, updated, course,
                                   allocation, use_threads, step + 1, new_neighbors)
             ELSE LET new_allocations ==
                          best_bundles(updated, instance, initial_budgets, use_threads)
                      hits == SelectSeq(new_allocations,
                                  LAMBDA new_allocation :
                                      differ_in_one_value(allocation, new_allocation,
                                                          course))
                  IN  raise_price_walk(instance, initial_budgets, history, updated,
                          course, allocation, use_threads, step + 1,
                          new_neighbors \o [h \in 1..Len(hits) |-> updated])

RECURSIVE individual_walk_untested(_, _, _, _, _, _, _, _, _)
\* the loop with the zeroed vector appended without the tabu test
individual_walk_untested(instance, initial_budgets, history, prices, excess_demand_vector, allocation, use_threads, course, new_neighbors) ==
    IF course > NumItems \/ course \notin DOMAIN excess_demand_vector
       \/ Len(new_neighbors) >= MaxIndividualNeighbors
    THEN new_neighbors
    ELSE IF excess_demand_vector[course] = 0
    THEN individual_walk_untested(instance, initial_budgets, history, prices,
             excess_demand_vector, allocation, use_threads, course + 1, new_neighbors)
    ELSE IF excess_demand_vector[course] > 0
    THEN individual_walk_untested(instance, initial_budgets, history, prices,
             excess_demand_vector, allocation, use_threads, course + 1,
             raise_price_walk(instance, initial_budgets, history, prices, course,
                              allocation, use_threads, 1, new_neighbors))
    ELSE individual_walk_untested(instance, initial_budgets, history, prices,
             excess_demand_vector, allocation, use_threads, course + 1,
             Append(new_neighbors, [prices EXCEPT ![course] = 0]))

RECURSIVE individual_walk(_, _, _, _, _, _, _, _, _)
\* lines 719-743: the loop over excess_demand_vector.items()
individual_walk(instance, initial_budgets, history, prices, excess_demand_vector, allocation, use_threads, course, new_neighbors) ==
    IF course > NumItems \/ course \notin DOMAIN excess_demand_vector
       \/ Len(new_neighbors) >= MaxIndividualNeighbors
    THEN new_neighbors
    ELSE IF excess_demand_vector[course] = 0
    THEN individual_walk(instance, initial_budgets, history, prices,
             excess_demand_vector, allocation, use_threads, course + 1, new_neighbors)
    ELSE IF excess_demand_vector[course] > 0
    THEN individual_walk(instance, initial_budgets, history, prices,
             excess_demand_vector, allocation, use_threads, course + 1,
             raise_price_walk(instance, initial_budgets, history, prices, course,
                              allocation, use_threads, 1, new_neighbors))
    ELSE LET updated_prices == [prices EXCEPT ![course] = 0]
         IN  individual_walk(instance, initial_budgets, history, prices,
                 excess_demand_vector, allocation, use_threads, course + 1,
                 IF is_tabu(updated_prices, history) THEN new_neighbors
                 ELSE Append(new_neighbors, updated_prices))

find_individual_price_adjustment_neighbors(instance, history, prices, excess_demand_vector, initial_budgets, allocation, use_threads) ==
    individual_walk(instance, initial_budgets, history, prices, excess_demand_vector,
                    allocation, use_threads, 1, << >>)

find_all_neighbors(instance, history, prices, delta, excess_demand_vector, initial_budgets, allocation, use_threads) ==
    find_gradient_neighbors(prices, delta, excess_demand_vector, history)
        \o find_individual_price_adjustment_neighbors(instance, history, prices,
               excess_demand_vector, initial_budgets, allocation, use_threads)

(* ------------------------ evaluation of a state ----------------------- *)
RECURSIVE evaluated_allocations(_, _, _, _, _)
\* lines 191-195: the excess demand and its norm of the allocations numbered
\* first..last, in the order of the list
evaluated_allocations(instance, prices, max_utilities_allocations, first, last) ==
    IF first > last THEN << >>
    ELSE IF first = last
    THEN LET alloc == max_utilities_allocations[first]
             excess_demand_vector ==
                 clipped_excess_demand(instance, prices, alloc, keys(alloc))
         IN  << [allocation |-> alloc,
                 excess_demand_vector |-> excess_demand_vector,
                 norma |-> linalg_norm(excess_demand_vector)] >>
    ELSE LET middle == (first + last) \div 2
         IN  evaluated_allocations(instance, prices, max_utilities_allocations,
                                   first, middle)
                 \o evaluated_allocations(instance, prices, max_utilities_allocations,
                                          middle + 1, last)

\* the index of the first element of least norma: what a scan that replaces
\* its minimum on a strictly smaller norma, and min(), both keep
first_min_norma(list) ==
    CHOOSE i \in 1..Len(list) :
        /\ \A j \in 1..Len(list) : ~ norm_less(list[j].norma, list[i].norma)
        /\ \A j \in 1..(i - 1) : norm_less(list[i].norma, list[j].norma)

\* lines 189-202; (None, None, inf) for an empty list
min_excess_demand_for_allocation(instance, prices, max_utilities_allocations) ==
    IF Len(max_utilities_allocations) = 0
    THEN [allocation |-> << >>, excess_demand_vector |-> << >>, norma |-> Inf]
    ELSE LET evaluated ==
                 evaluated_allocations(instance, prices, max_utilities_allocations,
                                       1, Len(max_utilities_allocations))
         IN  evaluated[first_min_norma(evaluated)]

RECURSIVE errors_of(_, _, _, _, _, _)
\* lines 803-815: errors.append((allocation, excess demand, norma, prices))
\* for the neighbors numbered first..last
errors_of(instance, neighbors, initial_budgets, use_threads, first, last) ==
    IF first > last THEN << >>
    ELSE IF first = last
    THEN LET updated_prices == neighbors[first]
             e == min_excess_demand_for_allocation(instance, updated_prices,
                      best_bundles(updated_prices, instance, initial_budgets,
                                   use_threads))
         IN  << [allocation |-> e.allocation,
                 excess_demand_vector |-> e.excess_demand_vector,
                 norma |-> e.norma,
                 prices |-> updated_prices] >>
    ELSE LET middle == (first + last) \div 2
         IN  errors_of(instance, neighbors, initial_budgets, use_threads, first, middle)
                 \o errors_of(instance, neighbors, initial_budgets, use_threads,
                              middle + 1, last)

\* a faulty find_min_error_prices: the last tuple of least norma in place of
\* the first
last_min_error_prices(instance, neighbors, initial_budgets, use_threads) ==
    LET errors_ == errors_of(instance, neighbors, initial_budgets, use_threads,
                             1, Len(neighbors))
        last == CHOOSE i \in 1..Len(errors_) :
                    /\ \A j \in 1..Len(errors_) :
                           ~ norm_less(errors_[j].norma, errors_[i].norma)
                    /\ \A j \in (i + 1)..Len(errors_) :
                           norm_less(errors_[i].norma, errors_[j].norma)
    IN  [errors |-> errors_, min_error_tuple |-> errors_[last]]

\* lines 801-817: the list errors and min(errors, key=lambda x: x[2])
find_min_error_prices(instance, neighbors, initial_budgets, use_threads) ==
    LET errors_ == errors_of(instance, neighbors, initial_budgets, use_threads,
                             1, Len(neighbors))
    IN  [errors |-> errors_, min_error_tuple |-> errors_[first_min_norma(errors_)]]

(* --------------------- the state of tabu_search ----------------------- *)
VARIABLES
    instance, initial_budgets,  \* the arguments of the algorithm
    pc,                  \* position of tabu_search
    use_threads, delta,  \* kwargs
    prices, history,
    allocation, excess_demand_vector, norma,
    best_allocation, best_prices, best_norma,
    gradient_neighbors, individual_price_adjustment_neighbors,
    iterations,          \* completed passes of the while loop
    visited,             \* the states evaluated so far, in order
    errors,              \* the list find_min_error_prices built for the last move
    pending,             \* the (student, item) pairs the commit loops still visit
    remaining_item_capacities, bundles,  \* the AllocationBuilder
    returned             \* the value tabu_search returns

(* ------------------ the state of find_ACEEI_with_EFTB ----------------- *)
\* find_ACEEI_with_EFTB keeps its prices, budgets, clearing error (norma),
\* best-bundle map (allocation) and excess demand in the variables above
VARIABLES
    epsilon,             \* kwargs
    new_budgets          \* student -> (budget, bundle), as the solver returned it

aceei_vars == << epsilon, new_budgets >>

(* --------- the state of a call of student_best_bundles_with_threads --- *)
\* The walk of find_individual_price_adjustment_neighbors over one course
\* and the thread pool of the call it makes at every step.
VARIABLES
    updated_prices,          \* the candidate vector
    walk_course,             \* the course (of the loop at line 719) it is raised on
    futures,                 \* one record per submitted task, in submission order
    all_combinations_dict,   \* (student, best_combinations) in insertion order
    completed                \* the students in the order their tasks returned

thread_vars == << updated_prices, walk_course, futures, all_combinations_dict, completed >>

NoThreads ==
    /\ updated_prices = << >>
    /\ walk_course = 0
    /\ futures = << >>
    /\ all_combinations_dict = << >>
    /\ completed = << >>

(* ------------------ one call of a helper function --------------------- *)
VARIABLE call

vars == << instance, initial_budgets, pc, use_threads, delta, prices, history,
           allocation, excess_demand_vector, norma, best_allocation, best_prices,
           best_norma, gradient_neighbors, individual_price_adjustment_neighbors,
           iterations, visited, errors, pending, remaining_item_capacities, bundles, returned,
           aceei_vars, thread_vars, call >>

(* ------------------------- the allocation sink ------------------------ *)
\* AllocationBuilder.give: the item joins the bundle, its remaining capacity
\* drops by one and the item leaves remaining_item_capacities at zero
give(student, item) ==
    /\ bundles' = [bundles EXCEPT ![student] = @ \cup {item}]
    /\ remaining_item_capacities' =
           IF item \in DOMAIN remaining_item_capacities
              /\ remaining_item_capacities[item] - 1 > 0
           THEN [remaining_item_capacities EXCEPT ![item] = @ - 1]
           ELSE [i \in (DOMAIN remaining_item_capacities) \ {item} |->
                    remaining_item_capacities[i]]

RECURSIVE bundle_items(_, _)
\* for item in bundle: the items of a tuple in instance order
bundle_items(bundle, j) ==
    IF j > NumItems THEN << >>
    ELSE (IF j \in bundle THEN << j >> ELSE << >>) \o bundle_items(bundle, j + 1)

RECURSIVE commit_order(_, _, _)
\* lines 147-148: the pairs visited by the two commit loops
commit_order(best, order, k) ==
    IF k > Len(order) THEN << >>
    ELSE LET items == bundle_items(best[order[k]], 1)
         IN  [i \in 1..Len(items) |-> << order[k], items[i] >>]
                 \o commit_order(best, order, k + 1)

(* --------------------------- tabu_search ------------------------------ *)
NoCall == [fn |-> "none"]

Idle ==
    /\ pc = "idle"
    /\ use_threads = FALSE
    /\ delta = << >>
    /\ prices = [course \in Items |-> 0]
    /\ history = << >>
    /\ allocation = << >>
    /\ excess_demand_vector = << >>
    /\ norma = Inf
    /\ best_allocation = << >>
    /\ best_prices = << >>
    /\ best_norma = Inf
    /\ gradient_neighbors = << >>
    /\ individual_price_adjustment_neighbors = << >>
    /\ iterations = 0
    /\ visited = << >>
    /\ errors = << >>
    /\ pending = << >>
    /\ remaining_item_capacities = << >>
    /\ bundles = << >>
    /\ returned = << >>
    /\ epsilon = 0
    /\ new_budgets = << >>
    /\ NoThreads

\* lines 97-103 and the AllocationBuilder made by divide()
Init ==
    /\ instance \in Instances
    /\ initial_budgets \in Budgets(BudgetValues)
    /\ use_threads \in BOOLEAN
    /\ delta \in DeltaValues
    /\ prices \in InitialPrices
    /\ pc = "start"
    /\ history = << >>
    /\ allocation = << >>
    /\ excess_demand_vector = << >>
    /\ norma = Inf
    /\ best_allocation = << >>
    /\ best_prices = << >>
    /\ best_norma = Inf
    /\ gradient_neighbors = << >>
    /\ individual_price_adjustment_neighbors = << >>
    /\ iterations = 0
    /\ visited = << >>
    /\ errors = << >>
    /\ pending = << >>
    /\ remaining_item_capacities = instance.item_capacities
    /\ bundles = [student \in Agents |-> {}]
    /\ returned = << >>
    /\ epsilon = 0
    /\ new_budgets = << >>
    /\ NoThreads
    /\ call = NoCall

\* lines 106-114
Evaluate ==
    /\ pc = "start"
    /\ \E e \in { min_excess_demand_for_allocation(instance, prices,
                        best_bundles(prices, instance, initial_budgets,
                                     use_threads)) } :
           /\ allocation' = e.allocation
           /\ excess_demand_vector' = e.excess_demand_vector
           /\ norma' = e.norma
           /\ best_allocation' = e.allocation
           /\ best_prices' = prices
           /\ best_norma' = e.norma
           /\ visited' = << [prices |-> prices, allocation |-> e.allocation,
                             norma |-> e.norma] >>
    /\ pc' = "loop"
    /\ UNCHANGED << instance, initial_budgets, use_threads, delta, prices, history,
                    gradient_neighbors, individual_price_adjustment_neighbors,
                    iterations, errors, pending, remaining_item_capacities, bundles, returned, call, aceei_vars,
                    thread_vars >>

\* lines 116 and 123: the loop ends on a zero norm
Converged ==
    /\ pc = "loop"
    /\ norma = 0
    /\ pc' = "commit"
    /\ pending' = commit_order(best_allocation, keys(best_allocation), 1)
    /\ UNCHANGED << instance, initial_budgets, use_threads, delta, prices, history,
                    allocation, excess_demand_vector, norma, best_allocation,
                    best_prices, best_norma, gradient_neighbors,
                    individual_price_adjustment_neighbors, iterations, visited, errors,
                    remaining_item_capacities, bundles, returned, call, aceei_vars,
                    thread_vars >>

\* lines 126-131
Neighbors ==
    /\ pc = "loop"
    /\ norma # 0
    /\ iterations < MaxIterations
    /\ \E history_ \in { Append(history, find_all_equivalent_prices(instance, initial_budgets,
                                                    allocation)) } :
           /\ history' = history_
           /\ gradient_neighbors' =
                  find_gradient_neighbors(prices, delta, excess_demand_vector, history_)
           /\ individual_price_adjustment_neighbors' =
                  find_individual_price_adjustment_neighbors(instance, history_,
                      prices, excess_demand_vector, initial_budgets, allocation,
                      use_threads)
    /\ pc' = "neighbors"
    /\ UNCHANGED << instance, initial_budgets, use_threads, delta, prices, allocation,
                    excess_demand_vector, norma, best_allocation, best_prices,
                    best_norma, iterations, visited, errors, pending,
                    remaining_item_capacities, bundles, returned, call, aceei_vars,
                    thread_vars >>

neighbors == gradient_neighbors \o individual_price_adjustment_neighbors

\* a faulty Stuck: the function returns without the commit loops
StuckReturnsAtOnce ==
    /\ pc = "neighbors"
    /\ Len(neighbors) = 0
    /\ pc' = "done"
    /\ returned' = best_allocation
    /\ UNCHANGED << instance, initial_budgets, use_threads, delta, prices, history,
                    allocation, excess_demand_vector, norma, best_allocation,
                    best_prices, best_norma, gradient_neighbors,
                    individual_price_adjustment_neighbors, iterations, visited, errors,
                    pending, remaining_item_capacities, bundles, call, aceei_vars,
                    thread_vars >>

\* lines 132-134
Stuck ==
    /\ pc = "neighbors"
    /\ Len(neighbors) = 0
    /\ pc' = "commit"
    /\ pending' = commit_order(best_allocation, keys(best_allocation), 1)
    /\ UNCHANGED << instance, initial_budgets, use_threads, delta, prices, history,
                    allocation, excess_demand_vector, norma, best_allocation,
                    best_prices, best_norma, gradient_neighbors,
                    individual_price_adjustment_neighbors, iterations, visited, errors,
                    remaining_item_capacities, bundles, returned, call, aceei_vars,
                    thread_vars >>

\* a faulty improved: the comparison of line 140 turned round
improved_reversed(min_error_tuple) == norm_less(best_norma, min_error_tuple.norma)

\* a faulty improved: <= in place of <
not_worse(min_error_tuple) == ~ norm_less(best_norma, min_error_tuple.norma)

\* lines 140-143
improved(min_error_tuple) == norm_less(min_error_tuple.norma, best_norma)

\* lines 136-143
Move ==
    /\ pc = "neighbors"
    /\ Len(neighbors) # 0
    /\ \E found \in { find_min_error_prices(instance, neighbors, initial_budgets,
                                            use_threads) } :
       \E min_error_tuple \in { found.min_error_tuple } :
           /\ errors' = found.errors
           /\ allocation' = min_error_tuple.allocation
           /\ excess_demand_vector' = min_error_tuple.excess_demand_vector
           /\ norma' = min_error_tuple.norma
           /\ prices' = min_error_tuple.prices
           /\ visited' = Append(visited, [prices |-> min_error_tuple.prices,
                                          allocation |-> min_error_tuple.allocation,
                                          norma |-> min_error_tuple.norma])
           /\ IF improved(min_error_tuple)
              THEN /\ best_allocation' = min_error_tuple.allocation
                   /\ best_prices' = min_error_tuple.prices
                   /\ best_norma' = min_error_tuple.norma
              ELSE UNCHANGED << best_allocation, best_prices, best_norma >>
    /\ iterations' = iterations + 1
    /\ pc' = "loop"
    /\ UNCHANGED << instance, initial_budgets, use_threads, delta, history,
                    gradient_neighbors, individual_price_adjustment_neighbors,
                    pending, remaining_item_capacities, bundles, returned, call, aceei_vars,
                    thread_vars >>

\* a faulty has_capacity: the check left out
capacity_unchecked(item) == item \in Items

\* line 149
has_capacity(item) == item \in DOMAIN remaining_item_capacities

\* lines 149-150, the item is given
Give ==
    /\ pc = "commit"
    /\ pending # << >>
    /\ has_capacity(Head(pending)[2])
    /\ give(Head(pending)[1], Head(pending)[2])
    /\ pending' = Tail(pending)
    /\ UNCHANGED << instance, initial_budgets, pc, use_threads, delta, prices, history,
                    allocation, excess_demand_vector, norma, best_allocation,
                    best_prices, best_norma, gradient_neighbors,
                    individual_price_adjustment_neighbors, iterations, visited, errors,
                    returned, call, aceei_vars,
                    thread_vars >>

\* a faulty Skip: an item without remaining capacity ends the commit pass
SkipAborts ==
    /\ pc = "commit"
    /\ pending # << >>
    /\ ~ has_capacity(Head(pending)[2])
    /\ pc' = "done"
    /\ returned' = best_allocation
    /\ UNCHANGED << instance, initial_budgets, use_threads, delta, prices, history,
                    allocation, excess_demand_vector, norma, best_allocation,
                    best_prices, best_norma, gradient_neighbors,
                    individual_price_adjustment_neighbors, iterations, visited, errors,
                    pending, remaining_item_capacities, bundles, call, aceei_vars,
                    thread_vars >>

\* line 149, the item is skipped
Skip ==
    /\ pc = "commit"
    /\ pending # << >>
    /\ ~ has_capacity(Head(pending)[2])
    /\ pending' = Tail(pending)
    /\ UNCHANGED << instance, initial_budgets, pc, use_threads, delta, prices, history,
                    allocation, excess_demand_vector, norma, best_allocation,
                    best_prices, best_norma, gradient_neighbors,
                    individual_price_adjustment_neighbors, iterations, visited, errors,
                    remaining_item_capacities, bundles, returned, call, aceei_vars,
                    thread_vars >>

\* line 152
Return ==
    /\ pc = "commit"
    /\ pending = << >>
    /\ pc' = "done"
    /\ returned' = best_allocation
    /\ UNCHANGED << instance, initial_budgets, use_threads, delta, prices, history,
                    allocation, excess_demand_vector, norma, best_allocation,
                    best_prices, best_norma, gradient_neighbors,
                    individual_price_adjustment_neighbors, iterations, visited, errors,
                    pending, remaining_item_capacities, bundles, call, aceei_vars,
                    thread_vars >>

Next ==
    \/ Evaluate
    \/ Converged
    \/ Neighbors
    \/ Stuck
    \/ Move
    \/ Give
    \/ Skip
    \/ Return

Spec == Init /\ [][Next]_vars

(* ----------------------- find_ACEEI_with_EFTB ------------------------- *)
\* the students of the gradient loop: the first against the others
Students == 1..NumStudents

ACEEIInstances ==
    [ valuations : { [s \in Students |-> IF s = 1 THEN first ELSE others] :
                       first \in ValuationRows, others \in ValuationRows },
      agent_capacities : { [s \in Students |-> c] : c \in {1, MaxAgentCapacity} },
      item_capacities : ItemCapacities ]

ACEEIBudgets ==
    { [s \in Students |-> IF s = 1 THEN first ELSE others] :
        first \in {1, 4}, others \in {1, 4} }

\* delta: a small step and one beyond every budget
StepSizes == {1, 7}

\* the (budget, bundle) pairs the solver may choose for a student; a student
\* with no affordable bundle keeps the initial budget and the empty bundle
candidates(map, budgets, student) ==
    IF DOMAIN map[student] = {}
    THEN { << budgets[student], {} >> }
    ELSE { << b, map[student][b] >> : b \in DOMAIN map[student] }

RECURSIVE selections(_, _, _)
\* one pair for each of the first s students
selections(map, budgets, s) ==
    IF s = 0 THEN { << >> }
    ELSE { Append(sel, c) : sel \in selections(map, budgets, s - 1),
                            c \in candidates(map, budgets, s) }

\* what one choice of the solver yields
solution(instance_, prices_, sel) ==
    LET chosen == [s \in DOMAIN sel |-> sel[s][2]]
        z == clipped_excess_demand(instance_, prices_, chosen, keys(chosen))
    IN  [new_budgets |-> sel, clearing_error |-> linalg_norm(z),
         excess_demand_per_course |-> z]

\* lp.optimize_model without tie-break constraints: the choices of one
\* budget per student that make the clearing error least
optimize_model(map, instance_, prices_, budgets) ==
    LET solutions == { solution(instance_, prices_, sel) :
                         sel \in selections(map, budgets, Cardinality(DOMAIN map)) }
    IN  { x \in solutions :
            \A y \in solutions : x.clearing_error <= y.clearing_error }

\* find_budget_perturbation: new_budgets, clearing_error, allocation, excess
find_budget_perturbation(budgets, radius, prices_, instance_) ==
    LET map == student_best_bundle_per_budget(prices_, instance_, radius, budgets)
    IN  { [new_budgets |-> x.new_budgets, clearing_error |-> x.clearing_error,
           allocation |-> map,
           excess_demand_per_course |-> x.excess_demand_per_course] :
          x \in optimize_model(map, instance_, prices_, budgets) }

\* ACEEI.py lines 128-136 and the AllocationBuilder made by divide()
InitACEEI ==
    /\ instance \in ACEEIInstances
    /\ initial_budgets \in ACEEIBudgets
    /\ delta \in StepSizes
    /\ epsilon \in EpsilonValues
    /\ prices = [key \in Items |-> 0]
    /\ norma = 1
    /\ new_budgets = << >>
    /\ pc = "perturb"
    /\ use_threads = FALSE
    /\ history = << >>
    /\ allocation = << >>
    /\ excess_demand_vector = << >>
    /\ best_allocation = << >>
    /\ best_prices = << >>
    /\ best_norma = Inf
    /\ gradient_neighbors = << >>
    /\ individual_price_adjustment_neighbors = << >>
    /\ iterations = 0
    /\ visited = << >>
    /\ errors = << >>
    /\ pending = << >>
    /\ remaining_item_capacities = instance.item_capacities
    /\ bundles = [student \in Students |-> {}]
    /\ returned = << >>
    /\ NoThreads
    /\ call = NoCall

aceei_unused ==
    << use_threads, history, best_allocation, best_prices, best_norma,
       gradient_neighbors, individual_price_adjustment_neighbors, iterations,
       visited, errors, returned, thread_vars, call >>

\* lines 137-141: while clearing_error: find_budget_perturbation(...)
FindBudgetPerturbation ==
    /\ pc = "perturb"
    /\ norma # 0
    /\ \E found \in find_budget_perturbation(initial_budgets, epsilon, prices,
                                              instance) :
           /\ new_budgets' = found.new_budgets
           /\ norma' = found.clearing_error
           /\ allocation' = found.allocation
           /\ excess_demand_vector' = found.excess_demand_per_course
    /\ pc' = "check"
    /\ UNCHANGED << instance, initial_budgets, delta, epsilon, prices, pending,
                    remaining_item_capacities, bundles, aceei_unused >>

\* the loop left for the give_bundle loop whatever the clearing error is
ClearingErrorIgnored ==
    /\ pc = "check"
    /\ pc' = "give"
    /\ pending' = keys(new_budgets)
    /\ UNCHANGED << instance, initial_budgets, delta, epsilon, prices, norma,
                    new_budgets, allocation, excess_demand_vector,
                    remaining_item_capacities, bundles, aceei_unused >>

\* lines 143-144: if np.allclose(clearing_error, 0): break
ClearingErrorZero ==
    /\ pc = "check"
    /\ norma = 0
    /\ pc' = "give"
    /\ pending' = keys(new_budgets)
    /\ UNCHANGED << instance, initial_budgets, delta, epsilon, prices, norma,
                    new_budgets, allocation, excess_demand_vector,
                    remaining_item_capacities, bundles, aceei_unused >>

\* line 147: prices[key] += delta * excess_demand_per_course[key]
updated_price(price, step, excess) == price + step * excess

\* the prices the model follows: within PriceRange of zero
in_range(prices_) ==
    \A key \in Items : - PriceRange <= prices_[key] /\ prices_[key] <= PriceRange

\* lines 146-147
UpdatePrices ==
    /\ pc = "check"
    /\ norma # 0
    /\ prices' = [key \in Items |->
                     updated_price(prices[key], delta, excess_demand_vector[key])]
    /\ in_range(prices')
    /\ pc' = "perturb"
    /\ UNCHANGED << instance, initial_budgets, delta, epsilon, norma, new_budgets,
                    allocation, excess_demand_vector, pending,
                    remaining_item_capacities, bundles, aceei_unused >>

\* AllocationBuilder.give_bundle: every item of the bundle is given
give_bundle(student, bundle) ==
    /\ bundles' = [bundles EXCEPT ![student] = @ \cup bundle]
    /\ remaining_item_capacities' =
           [i \in { j \in DOMAIN remaining_item_capacities :
                      j \notin bundle \/ remaining_item_capacities[j] > 1 } |->
               IF i \in bundle THEN remaining_item_capacities[i] - 1
               ELSE remaining_item_capacities[i]]

\* lines 151-153: for student, (price, bundle) in new_budgets.items()
GiveBundle ==
    /\ pc = "give"
    /\ pending # << >>
    /\ give_bundle(Head(pending), new_budgets[Head(pending)][2])
    /\ pending' = Tail(pending)
    /\ UNCHANGED << instance, initial_budgets, pc, delta, epsilon, prices, norma,
                    new_budgets, allocation, excess_demand_vector, aceei_unused >>

\* lines 155-164: the function ends
Finish ==
    /\ pc = "give"
    /\ pending = << >>
    /\ pc' = "finished"
    /\ UNCHANGED << instance, initial_budgets, delta, epsilon, prices, norma,
                    new_budgets, allocation, excess_demand_vector, pending,
                    remaining_item_capacities, bundles, aceei_unused >>

NextACEEI ==
    \/ FindBudgetPerturbation
    \/ ClearingErrorZero
    \/ UpdatePrices
    \/ GiveBundle
    \/ Finish

SpecACEEI == InitACEEI /\ [][NextACEEI]_vars

\* at the head of the loop the call of find_budget_perturbation returns
Perturbed == pc = "perturb" /\ norma # 0 /\ pc' = "check"

\* the function is one thread of control: it takes its next step when it has one
FairSpecACEEI ==
    /\ SpecACEEI
    /\ WF_pc(Perturbed)
    /\ WF_vars(ClearingErrorZero)
    /\ WF_vars(UpdatePrices)
    /\ WF_vars(GiveBundle)
    /\ WF_vars(Finish)


(* ------- find_individual_price_adjustment_neighbors, task by task ----- *)
\* The walk of lines 724-738 over one course with positive excess demand,
\* with use_threads: every step raises the candidate vector and, unless it
\* is tabu, calls student_best_bundles_with_threads, whose worker tasks
\* return in any order.
thread_unused ==
    << use_threads, delta, allocation, excess_demand_vector, norma, best_allocation,
       best_prices, best_norma, gradient_neighbors, visited, errors, pending,
       remaining_item_capacities, bundles, aceei_vars, call >>

\* tabu_search lines 106-131 up to the call of the walk, and line 724
InitThreads ==
    /\ instance \in [ valuations : Valuations, agent_capacities : AgentCapacities,
                      item_capacities : { [j \in Items |-> 1] } ]
    /\ initial_budgets \in Budgets(BudgetValues)
    /\ prices \in InitialPrices
    /\ use_threads = TRUE
    /\ \E e \in { min_excess_demand_for_allocation(instance, prices,
                       student_best_bundles_with_threads(prices, instance,
                                                         initial_budgets)) } :
           /\ allocation = e.allocation
           /\ excess_demand_vector = e.excess_demand_vector
           /\ norma = e.norma
           /\ history = << find_all_equivalent_prices(instance, initial_budgets,
                                                      e.allocation) >>
           /\ walk_course \in { c \in Items : e.excess_demand_vector[c] > 0 }
    /\ updated_prices = prices
    /\ pc = "step"
    /\ iterations = 0
    /\ individual_price_adjustment_neighbors = << >>
    /\ futures = << >>
    /\ all_combinations_dict = << >>
    /\ completed = << >>
    /\ returned = << >>
    /\ delta = << >>
    /\ best_allocation = << >>
    /\ best_prices = << >>
    /\ best_norma = Inf
    /\ gradient_neighbors = << >>
    /\ visited = << >>
    /\ errors = << >>
    /\ pending = << >>
    /\ remaining_item_capacities = instance.item_capacities
    /\ bundles = [student \in Agents |-> {}]
    /\ epsilon = 0
    /\ new_budgets = << >>
    /\ call = NoCall

\* lines 726-729: the next step of the walk; on a tabu vector: continue
RaisePrice ==
    /\ pc = "step"
    /\ iterations < AdjustmentSteps
    /\ \E raised \in { [updated_prices EXCEPT ![walk_course] = @ + SqrtHalf] } :
           /\ updated_prices' = raised
           /\ IF is_tabu(raised, history)
              THEN UNCHANGED << pc, futures, all_combinations_dict, completed,
                                returned >>
              ELSE /\ pc' = "submit"
                   /\ futures' = << >>
                   /\ all_combinations_dict' = << >>
                   /\ completed' = << >>
                   /\ returned' = << >>
    /\ iterations' = iterations + 1
    /\ UNCHANGED << instance, initial_budgets, prices, history, walk_course,
                    individual_price_adjustment_neighbors, thread_unused >>

\* lines 732 and 415: executor.submit(compute_best_bundles_for_student,
\* student, instance, prices, initial_budgets) with prices the copy passed in
Submit ==
    /\ pc = "submit"
    /\ futures' = Append(futures, [student |-> Len(futures) + 1,
                                   prices |-> updated_prices,
                                   state |-> "running", result |-> << >>])
    /\ pc' = IF Len(futures) + 1 = NumAgents THEN "collect" ELSE "submit"
    /\ UNCHANGED << instance, initial_budgets, prices, history, updated_prices,
                    walk_course, all_combinations_dict, completed, returned,
                    iterations, individual_price_adjustment_neighbors,
                    thread_unused >>

\* lines 342-366 in a worker thread: the task of futures[k] returns
TaskReturns(k) ==
    /\ futures[k].state = "running"
    /\ futures' = [futures EXCEPT
                      ![k].state = "done",
                      ![k].result = compute_best_bundles_for_student(
                                        futures[k].student, instance,
                                        futures[k].prices, initial_budgets)]
    /\ completed' = Append(completed, futures[k].student)
    /\ UNCHANGED << instance, initial_budgets, pc, prices, history, updated_prices,
                    walk_course, all_combinations_dict, returned, iterations,
                    individual_price_adjustment_neighbors, thread_unused >>

\* a faulty next_future: as_completed(futures), the tasks as they return
next_completed(completed_, n) ==
    IF n <= Len(completed_) THEN completed_[n] ELSE n

\* line 416: for future in futures, the n-th future read
next_future(completed_, n) == n

\* a faulty result_ready: the result is read without waiting for the task
read_unfinished(future) == TRUE

\* line 417: future.result() returns once the task has returned
result_ready(future) == future.state = "done"

\* lines 416-418: all_combinations[student] = best_combinations
Collect ==
    /\ pc = "collect"
    /\ \E future \in { futures[next_future(completed,
                                             Len(all_combinations_dict) + 1)] } :
           /\ result_ready(future)
           /\ all_combinations_dict' =
                  Append(all_combinations_dict, << future.student, future.result >>)
    /\ pc' = IF Len(all_combinations_dict) + 1 = Len(futures)
             THEN "combine" ELSE "collect"
    /\ UNCHANGED << instance, initial_budgets, prices, history, updated_prices,
                    walk_course, futures, completed, returned, iterations,
                    individual_price_adjustment_neighbors, thread_unused >>

\* lines 420-431, the return to line 732, and lines 736-738
Combine ==
    /\ pc = "combine"
    /\ \E new_allocations \in
           { valid_allocations(futures[1].prices, initial_budgets,
                 product([n \in 1..Len(all_combinations_dict) |->
                             all_combinations_dict[n][2]],
                         Len(all_combinations_dict))) } :
           /\ returned' = new_allocations
           /\ individual_price_adjustment_neighbors' =
                  individual_price_adjustment_neighbors
                      \o [h \in 1..Len(SelectSeq(new_allocations,
                               LAMBDA new_allocation :
                                   differ_in_one_value(allocation, new_allocation,
                                                       walk_course))) |->
                             updated_prices]
    /\ pc' = "step"
    /\ UNCHANGED << instance, initial_budgets, prices, history, updated_prices,
                    walk_course, futures, all_combinations_dict, completed,
                    iterations, thread_unused >>

\* line 726: range(10) is used up
EndWalk ==
    /\ pc = "step"
    /\ iterations = AdjustmentSteps
    /\ pc' = "walked"
    /\ UNCHANGED << instance, initial_budgets, prices, history, updated_prices,
                    walk_course, futures, all_combinations_dict, completed, returned,
                    iterations, individual_price_adjustment_neighbors,
                    thread_unused >>

NextThreads ==
    \/ RaisePrice
    \/ Submit
    \/ \E k \in 1..Len(futures) : TaskReturns(k)
    \/ Collect
    \/ Combine
    \/ EndWalk

SpecThreads == InitThreads /\ [][NextThreads]_vars

(* --------------- the helper functions called on their own ------------- *)
\* A behaviour of SpecCalls is one call of one helper function.
\* Arguments of a call: prices that are zero, the unit or MaxPrice (the
\* courses after the third are priced as the third), any bundles within the
\* largest capacity, a poor and a richer budget.
PriceVectors ==
    {p \in [Items -> {0, 1, MaxPrice}] : \A j \in Items : j > 3 => p[j] = p[3]}
ZeroOrNot ==
    {p \in [Items -> {0, MaxPrice}] : \A j \in Items : j > 3 => p[j] = p[3]}
CallBudgetValues == {1, 4}
Bundles == {bundle \in SUBSET Items : Cardinality(bundle) <= MaxAgentCapacity}
AgentOrders ==
    {order \in [Agents -> Agents] : \A a \in Agents : \E k \in Agents : order[k] = a}

driver_vars ==
    << pc, use_threads, delta, prices, history, allocation, excess_demand_vector,
       norma, best_allocation, best_prices, best_norma, gradient_neighbors,
       individual_price_adjustment_neighbors, iterations, visited, errors, pending,
       remaining_item_capacities, bundles, returned, aceei_vars, thread_vars >>

DefaultInstance ==
    [ valuations |-> [a \in Agents |-> [j \in Items |-> j]],
      agent_capacities |-> [a \in Agents |-> MaxAgentCapacity],
      item_capacities |-> [j \in Items |-> 1] ]

InitCalls ==
    /\ instance = DefaultInstance
    /\ initial_budgets = [a \in Agents |-> 1]
    /\ Idle
    /\ call = NoCall

CallInstances ==
    { [ valuations |-> valuations, agent_capacities |-> agent_capacities,
        item_capacities |-> DefaultInstance.item_capacities ] :
      valuations \in Valuations, agent_capacities \in AgentCapacities }

SeatInstances ==
    { [ valuations |-> DefaultInstance.valuations,
        agent_capacities |-> DefaultInstance.agent_capacities,
        item_capacities |-> item_capacities ] : item_capacities \in ItemCapacities }

CallExcessDemand ==
    /\ call = NoCall
    /\ \E inst \in SeatInstances, alloc \in [Agents -> Bundles], order \in AgentOrders :
           /\ instance' = inst
           /\ call' = [fn |-> "excess_demand", prices |-> << >>, epsilon |-> 0,
                       allocation |-> alloc, order |-> order,
                       result |-> excess_demand(inst, alloc, order)]
    /\ UNCHANGED << initial_budgets, driver_vars >>

CallClippedExcessDemand ==
    /\ call = NoCall
    /\ \E inst \in SeatInstances, alloc \in [Agents -> Bundles], p \in ZeroOrNot :
           /\ instance' = inst
           /\ call' = [fn |-> "clipped_excess_demand", prices |-> p, epsilon |-> 0,
                       allocation |-> alloc, order |-> keys(alloc),
                       result |-> clipped_excess_demand(inst, p, alloc, keys(alloc))]
    /\ UNCHANGED << initial_budgets, driver_vars >>

CallStudentBestBundles ==
    /\ call = NoCall
    /\ \E inst \in CallInstances, budgets \in Budgets(CallBudgetValues),
          p \in PriceVectors :
           /\ instance' = inst
           /\ initial_budgets' = budgets
           /\ call' = [fn |-> "student_best_bundles", prices |-> p, epsilon |-> 0,
                       allocation |-> << >>, order |-> << >>,
                       result |-> student_best_bundles(p, inst, budgets)]
    /\ UNCHANGED driver_vars

CallStudentBestBundlesWithThreads ==
    /\ call = NoCall
    /\ \E inst \in CallInstances, budgets \in Budgets(CallBudgetValues),
          p \in PriceVectors :
           /\ instance' = inst
           /\ initial_budgets' = budgets
           /\ call' = [fn |-> "student_best_bundles_with_threads", prices |-> p,
                       epsilon |-> 0, allocation |-> << >>, order |-> << >>,
                       result |-> student_best_bundles_with_threads(p, inst, budgets)]
    /\ UNCHANGED driver_vars

CallStudentBestBundlePerBudget ==
    /\ call = NoCall
    /\ \E inst \in CallInstances, budgets \in Budgets(CallBudgetValues),
          p \in PriceVectors, radius \in EpsilonValues :
           /\ instance' = inst
           /\ initial_budgets' = budgets
           /\ call' = [fn |-> "student_best_bundle_per_budget", prices |-> p,
                       epsilon |-> radius, allocation |-> << >>, order |-> << >>,
                       result |-> student_best_bundle_per_budget(p, inst, radius,
                                                                 budgets)]
    /\ UNCHANGED driver_vars

\* find_all_equivalent_prices on an allocation student_best_bundles returns at p
CallFindAllEquivalentPrices ==
    /\ call = NoCall
    /\ \E inst \in CallInstances, budgets \in Budgets(CallBudgetValues),
          p \in PriceVectors :
           /\ instance' = inst
           /\ initial_budgets' = budgets
           /\ \E allocations \in { student_best_bundles(p, inst, budgets) } :
                \E k \in 1..Len(allocations) :
                   call' = [fn |-> "find_all_equivalent_prices", prices |-> p,
                            epsilon |-> 0, allocation |-> allocations[k],
                            order |-> << >>,
                            result |-> find_all_equivalent_prices(inst, budgets,
                                                                  allocations[k])]
    /\ UNCHANGED driver_vars

\* excess-demand vectors a caller may pass: every course over-demanded,
\* every course under-demanded, one course of each kind, and all courses
\* over-demanded but the last
ExcessDemandVectors ==
    { [j \in Items |-> 1], [j \in Items |-> 0 - 1],
      [j \in Items |-> IF j = 1 THEN 1 ELSE IF j = 2 THEN 0 ELSE 0 - 1],
      [j \in Items |-> IF j = NumItems THEN 0 - 1 ELSE 1] }

\* uniform prices, and a dear first course
AdjustedPrices ==
    { [j \in Items |-> c] : c \in {0, 1, MaxPrice} }
        \cup { [j \in Items |-> IF j = 1 THEN MaxPrice ELSE 1] }

\* instances in which the first student has any of the rows, among them the
\* row with one wanted course, under which all bundles without it tie, and
\* the other students value the courses in increasing order
AdjustedInstances ==
    { [ valuations |-> [a \in Agents |-> IF a = 1 THEN first
                                        ELSE [j \in Items |-> j]],
        agent_capacities |-> [a \in Agents |-> MaxAgentCapacity],
        item_capacities |-> DefaultInstance.item_capacities ] : first \in TableRows }

\* find_individual_price_adjustment_neighbors on an allocation
\* student_best_bundles returns at p, with an empty history or with the
\* constraint-set of that allocation in the history
CallFindIndividualPriceAdjustmentNeighbors ==
    /\ call = NoCall
    /\ \E inst \in AdjustedInstances, budgets \in Budgets(CallBudgetValues),
          p \in AdjustedPrices, z \in ExcessDemandVectors, recorded \in BOOLEAN :
           /\ instance' = inst
           /\ initial_budgets' = budgets
           /\ \E allocations \in { student_best_bundles(p, inst, budgets) } :
                \E k \in 1..Len(allocations) :
                  \E history_ \in { IF recorded
                                    THEN << find_all_equivalent_prices(inst, budgets,
                                                allocations[k]) >>
                                    ELSE << >> } :
                   call' = [fn |-> "find_individual_price_adjustment_neighbors",
                            prices |-> p, epsilon |-> 0,
                            allocation |-> allocations[k], order |-> << >>,
                            excess_demand_vector |-> z, history |-> history_,
                            result |-> find_individual_price_adjustment_neighbors(
                                           inst, history_, p, z, budgets,
                                           allocations[k], FALSE)]
    /\ UNCHANGED driver_vars

NextCalls ==
    \/ CallFindIndividualPriceAdjustmentNeighbors
    \/ CallExcessDemand
    \/ CallClippedExcessDemand
    \/ CallStudentBestBundles
    \/ CallStudentBestBundlesWithThreads
    \/ CallStudentBestBundlePerBudget
    \/ CallFindAllEquivalentPrices

SpecCalls == InitCalls /\ [][NextCalls]_vars

(* ======================= properties of the helpers ==================== *)
\* the number of agents whose bundle in alloc holds the item
Demand(alloc, item) == Cardinality({a \in DOMAIN alloc : item \in alloc[a]})

\* the price of a bundle at p and its value to an agent
Price(p, bundle) == SumOver(p, bundle, NumItems)
Value(a, bundle) == SumOver(instance.valuations[a], bundle, NumItems)

\* the combinations of 1..capacity items of an agent
Combinations(a) ==
    {c \in SUBSET Items : 1 <= Cardinality(c) /\ Cardinality(c) <= instance.agent_capacities[a]}

\* C2: every allocation student_best_bundles and student_best_bundles_with_threads
\* return gives every agent of the instance a bundle, and the prices of the
\* items of that bundle sum to at most the agent's initial budget.
C2_ReturnedAllocationsAffordable ==
    call.fn \in {"student_best_bundles", "student_best_bundles_with_threads"} =>
        \A k \in 1..Len(call.result) :
            /\ DOMAIN call.result[k] = Agents
            /\ \A a \in Agents :
                   Price(call.prices, call.result[k][a]) <= initial_budgets[a]

\* the threaded enumerator returned an allocation although some agent cannot
\* afford a combination it values more than one it can afford
C2_Witness ==
    /\ call.fn = "student_best_bundles_with_threads"
    /\ Len(call.result) >= 1
    /\ \E a \in Agents :
           \E c \in Combinations(a), d \in Combinations(a) :
               /\ Price(call.prices, c) > initial_budgets[a]
               /\ Price(call.prices, d) <= initial_budgets[a]
               /\ Value(a, c) > Value(a, d)
    /\ \E a \in Agents : call.result[1][a] # {}

\* C3: excess_demand returns for every item the number of agents whose bundle
\* holds the item minus the capacity of the item, and the same in whatever
\* order the agents of the allocation are iterated.
C3_ExcessDemandIsDemandMinusCapacity ==
    call.fn = "excess_demand" =>
        /\ DOMAIN call.result = Items
        /\ \A item \in Items :
               call.result[item]
                   = Demand(call.allocation, item) - instance.item_capacities[item]
        /\ \A order \in AgentOrders :
               excess_demand(instance, call.allocation, order) = call.result

\* a call, agents not in instance order, with an over-demanded and an
\* under-demanded item
C3_Witness ==
    /\ call.fn = "excess_demand"
    /\ call.order # keys(call.allocation)
    /\ \E item \in Items : call.result[item] > 0
    /\ \E item \in Items : call.result[item] < 0

\* C4: clipped_excess_demand is max(0, excess demand) on every item whose
\* price is exactly zero, hence not negative there, and the excess demand
\* unchanged on every item whose price is not zero.
C4_ClippedAtZeroPriceOnly ==
    call.fn = "clipped_excess_demand" =>
        \A item \in Items :
            LET z == Demand(call.allocation, item) - instance.item_capacities[item]
            IN  IF call.prices[item] = 0
                THEN /\ call.result[item] = (IF z > 0 THEN z ELSE 0)
                     /\ call.result[item] >= 0
                ELSE call.result[item] = z

\* a call where a free item is under-demanded (clipped), a free item is
\* over-demanded and a priced item is under-demanded (both kept)
C4_Witness ==
    /\ call.fn = "clipped_excess_demand"
    /\ \E item \in Items :
           /\ call.prices[item] = 0
           /\ Demand(call.allocation, item) < instance.item_capacities[item]
           /\ call.result[item] = 0
    /\ \E item \in Items : call.prices[item] = 0 /\ call.result[item] > 0
    /\ \E item \in Items : call.prices[item] # 0 /\ call.result[item] < 0

\* the combinations an agent can afford at the prices of the call, and the
\* most valuable among them
Affordable(a) ==
    {c \in Combinations(a) : Price(call.prices, c) <= initial_budgets[a]}
BestAffordable(a) ==
    {c \in Affordable(a) : \A d \in Affordable(a) : Value(a, d) <= Value(a, c)}

\* the bundles an agent receives across the returned allocations
Received(a) == {call.result[k][a] : k \in 1..Len(call.result)}

\* what the enumerator keeps for an agent: the empty bundle if none is affordable
Kept(a) == IF Affordable(a) = {} THEN { {} } ELSE BestAffordable(a)

RECURSIVE ProductSize(_)
ProductSize(a) == IF a = 0 THEN 1 ELSE ProductSize(a - 1) * Cardinality(Kept(a))

\* C5: student_best_bundles gives every agent with an affordable combination
\* exactly the affordable combinations of greatest value, all ties and
\* nothing of lower value, and the returned list is the Cartesian product
\* of the per-agent sets: every member of the product, once.
C5_AllBestAffordableBundles ==
    call.fn = "student_best_bundles" =>
        /\ \A a \in Agents : Affordable(a) # {} => Received(a) = BestAffordable(a)
        /\ \A k \in 1..Len(call.result) :
               \A a \in Agents : call.result[k][a] \in Kept(a)
        /\ \A k \in 1..Len(call.result), l \in 1..Len(call.result) :
               k # l => call.result[k] # call.result[l]
        /\ Len(call.result) = ProductSize(NumAgents)

\* an agent with two tied best bundles and a cheaper bundle of lower value,
\* and another agent with two tied best bundles
C5_Witness ==
    /\ call.fn = "student_best_bundles"
    /\ \E a \in Agents, b \in Agents :
           /\ a # b
           /\ Cardinality(Received(a)) >= 2
           /\ Cardinality(Received(b)) >= 2
           /\ Affordable(a) # BestAffordable(a)
    /\ Len(call.result) >= 4

\* the rank of a combination in window mode: its value, plus the greatest
\* value of the agent when the combination fills the capacity
Rank(a, c) ==
    Value(a, c)
    + (IF Cardinality(c) = instance.agent_capacities[a]
       THEN CHOOSE v \in {Value(a, d) : d \in Combinations(a)} :
                \A d \in Combinations(a) : Value(a, d) <= v
       ELSE 0)

\* c comes before d in the enumeration: fewer items, or as many and
\* earlier in lexicographic order
EnumeratedBefore(c, d) ==
    \/ Cardinality(c) < Cardinality(d)
    \/ /\ Cardinality(c) = Cardinality(d)
       /\ c # d
       /\ \E j \in c \ d : \A i \in d \ c : j < i

RankedBefore(a, c, d) ==
    \/ Rank(a, c) > Rank(a, d)
    \/ Rank(a, c) = Rank(a, d) /\ EnumeratedBefore(c, d)

\* C6: in window mode the bundle recorded at a threshold t is the
\* highest-ranked combination priced at most t, and the walk stops at the
\* first combination priced at most budget - epsilon, recorded under that key.
C6_HighestRankedPerThreshold ==
    call.fn = "student_best_bundle_per_budget" =>
        \A a \in Agents :
            LET recorded == call.result[a]
                min_budget == initial_budgets[a] - call.epsilon
            IN  /\ \A t \in DOMAIN recorded :
                       /\ recorded[t] \in Combinations(a)
                       /\ Price(call.prices, recorded[t]) <= t
                       /\ \A d \in Combinations(a) :
                              Price(call.prices, d) <= t /\ d # recorded[t]
                                  => RankedBefore(a, recorded[t], d)
                /\ (min_budget \in DOMAIN recorded)
                       <=> (\E c \in Combinations(a) : Price(call.prices, c) <= min_budget)
                /\ min_budget \in DOMAIN recorded =>
                       \A t \in DOMAIN recorded :
                           t # min_budget
                               => RankedBefore(a, recorded[t], recorded[min_budget])

\* an agent with two price points inside the window and the stop at budget - epsilon
C6_Witness ==
    /\ call.fn = "student_best_bundle_per_budget"
    /\ \E a \in Agents :
           /\ Cardinality(DOMAIN call.result[a]) >= 3
           /\ (initial_budgets[a] - call.epsilon) \in DOMAIN call.result[a]

\* C7: every predicate find_all_equivalent_prices generates for an allocation
\* that student_best_bundles returns at p is true at p.
C7_PredicatesHoldAtOwnPrices ==
    call.fn = "find_all_equivalent_prices" =>
        \A i \in 1..Len(call.result) :
            IF call.result[i].op = "<="
            THEN Price(call.prices, call.result[i].keys) <= call.result[i].budget
            ELSE Price(call.prices, call.result[i].keys) > call.result[i].budget

(* ======================= properties of tabu_search ==================== *)
\* C1: after tabu_search has committed, on either way out of the loop, the
\* number of agents given an item is at most the capacity of the item, also
\* when the best-known allocation has positive excess demand.
C1_CommittedWithinCapacity ==
    pc = "done" =>
        \A item \in Items : Demand(bundles, item) <= instance.item_capacities[item]

\* the search ended without neighbors and committed a best-known allocation
\* in which a course is over-demanded
C1_Witness ==
    /\ pc = "done"
    /\ norma # 0
    /\ \E item \in Items :
           /\ Demand(best_allocation, item) > instance.item_capacities[item]
           /\ Demand(bundles, item) = instance.item_capacities[item]

\* p satisfies every predicate of some constraint-set of the history
Tabu(p) ==
    \E k \in 1..Len(history) :
        \A i \in 1..Len(history[k]) :
            IF history[k][i].op = "<="
            THEN Price(p, history[k][i].keys) <= history[k][i].budget
            ELSE Price(p, history[k][i].keys) > history[k][i].budget

\* the gradient candidate of step size d: every price moved from prices
GradientCandidate(d) ==
    [course \in Items |->
        IF prices[course] + d * excess_demand_vector[course] > 0
        THEN prices[course] + d * excess_demand_vector[course]
        ELSE 0]

\* C8: a price vector is treated as tabu exactly when it satisfies every
\* predicate of some constraint-set of the history, and no vector that
\* find_all_neighbors returns is tabu for the history passed in.
C8_NoNeighborIsTabu ==
    pc = "neighbors" =>
        /\ \A n \in 1..Len(neighbors) : ~ Tabu(neighbors[n])
        /\ \A k \in 1..Len(delta) :
               (\E n \in 1..Len(gradient_neighbors) :
                    gradient_neighbors[n] = GradientCandidate(delta[k]))
                   <=> ~ Tabu(GradientCandidate(delta[k]))

\* a gradient candidate was tabu and left out while another vector was returned
C8_Witness ==
    /\ pc = "neighbors"
    /\ \E k \in 1..Len(delta) : Tabu(GradientCandidate(delta[k]))
    /\ Len(neighbors) >= 1

\* C9: find_gradient_neighbors returns at most one vector per step size, and
\* each returned vector is, on every item, max(0, old price + step size *
\* excess demand) computed from the prices passed in.
C9_GradientNeighborsFromGivenPrices ==
    pc = "neighbors" =>
        /\ Len(gradient_neighbors) <= Len(delta)
        /\ \E pick \in [1..Len(gradient_neighbors) -> 1..Len(delta)] :
               /\ \A m \in DOMAIN pick, n \in DOMAIN pick : m < n => pick[m] < pick[n]
               /\ \A n \in DOMAIN pick :
                      gradient_neighbors[n] = GradientCandidate(delta[pick[n]])

\* two step sizes gave two vectors, a price was floored at zero and another moved
C9_Witness ==
    /\ pc = "neighbors"
    /\ Len(gradient_neighbors) = 2
    /\ gradient_neighbors[1] # gradient_neighbors[2]
    /\ \E course \in Items :
           prices[course] + delta[1] * excess_demand_vector[course] < 0
    /\ \E course \in Items : gradient_neighbors[2][course] > prices[course]

\* C10: the best-known norm is the least norm of the states visited so far,
\* the best-known allocation and prices are those of the first visited state
\* of that norm, and the allocation committed and returned is the best-known
\* one.
C10_BestKnownIsFirstLeastVisited ==
    /\ pc # "start" =>
           \E i \in 1..Len(visited) :
               /\ \A j \in 1..Len(visited) : visited[i].norma <= visited[j].norma
               /\ \A j \in 1..(i - 1) : visited[i].norma < visited[j].norma
               /\ best_norma = visited[i].norma
               /\ best_allocation = visited[i].allocation
               /\ best_prices = visited[i].prices
    /\ pc = "done" =>
           /\ returned = best_allocation
           /\ \A a \in Agents : bundles[a] \subseteq best_allocation[a]
           /\ \A a \in Agents : \A item \in best_allocation[a] :
                  item \in bundles[a]
                      \/ Demand(bundles, item) = instance.item_capacities[item]

\* the search ended on a state worse than an earlier one, after three moves
C10_Witness ==
    /\ pc = "done"
    /\ Len(visited) >= 4
    /\ best_norma < norma
    /\ best_prices # prices
    /\ returned # allocation

\* C11: when find_all_neighbors returns an empty list tabu_search leaves the
\* loop in that same iteration, evaluates no further state, and the commit
\* loops still give the best-known allocation to the sink.
C11_NoNeighborsEndsAndCommits ==
    /\ (pc \in {"commit", "done"} /\ norma # 0) =>
           /\ Len(neighbors) = 0
           /\ Len(history) = iterations + 1
           /\ Len(visited) = iterations + 1
           /\ visited[Len(visited)].prices = prices
           /\ visited[Len(visited)].allocation = allocation
    /\ (pc = "done" /\ norma # 0) =>
           /\ returned = best_allocation
           /\ \A a \in Agents : bundles[a] \subseteq best_allocation[a]
           /\ \A a \in Agents : \A item \in best_allocation[a] :
                  item \in bundles[a] \/ ~ has_capacity(item)

\* the search ran out of neighbors after a move and the sink holds courses
C11_Witness ==
    /\ pc = "done"
    /\ norma # 0
    /\ iterations >= 1
    /\ Len(neighbors) = 0
    /\ \E a \in Agents : bundles[a] # {}

(* =================== properties of find_ACEEI_with_EFTB =============== *)
\* C12: in find_ACEEI_with_EFTB the price of every item is >= 0 in every
\* reachable state, whatever excess-demand vector the solver returns.
C12_PricesNeverNegative ==
    pc \in {"perturb", "check", "give", "finished"} =>
        \A key \in Items : prices[key] >= 0

\* the next price update leaves the range of prices the model follows
LeavesRange ==
    /\ pc = "check"
    /\ norma # 0
    /\ ~ in_range([key \in Items |->
                      updated_price(prices[key], delta, excess_demand_vector[key])])

\* C13: find_ACEEI_with_EFTB always terminates: every run (followed while
\* its prices stay in the modelled range) reaches the end of the function,
\* with a zero clearing error or a reported non-convergence.
C13_AlwaysTerminates == <>(pc = "finished" \/ LeavesRange)

(* ================ more properties of the helper functions ============= *)
\* C14: in fixed-budget mode an agent with a non-negative budget who can
\* afford no combination of 1..capacity items is in every returned
\* allocation, with the empty bundle, and allocations are returned.
C14_InfeasibleAgentGetsEmptyBundle ==
    call.fn \in {"student_best_bundles", "student_best_bundles_with_threads"} =>
        \A a \in Agents :
            (initial_budgets[a] >= 0 /\ Affordable(a) = {}) =>
                /\ (\A b \in Agents : initial_budgets[b] >= 0) => Len(call.result) >= 1
                /\ \A k \in 1..Len(call.result) :
                       /\ a \in DOMAIN call.result[k]
                       /\ call.result[k][a] = {}

\* one agent can afford nothing while another receives courses
C14_Witness ==
    /\ call.fn \in {"student_best_bundles", "student_best_bundles_with_threads"}
    /\ \E a \in Agents, b \in Agents :
           /\ Affordable(a) = {}
           /\ Affordable(b) # {}
           /\ Len(call.result) >= 1
           /\ call.result[1][a] = {}
           /\ call.result[1][b] # {}

(* ============ properties of the calls made with use_threads =========== *)
\* the tasks of the last call did not return in the order of submission
OutOfOrder ==
    \E i \in 1..Len(completed), j \in 1..Len(completed) :
        i < j /\ completed[i] > completed[j]

\* C15: for the same prices, instance and budgets the call with threads
\* returns the same list of allocations, in the same order, as the
\* sequential student_best_bundles, whatever the order in which the worker
\* tasks returned.
C15_ThreadsSameAsSequential ==
    (pc \in {"step", "walked"} /\ futures # << >>) =>
        returned = student_best_bundles(futures[1].prices, instance, initial_budgets)

\* a call whose tasks returned out of order gave several allocations in
\* which the students hold different bundles
C15_Witness ==
    /\ pc = "step"
    /\ futures # << >>
    /\ OutOfOrder
    /\ Len(returned) >= 2
    /\ \E a \in Agents, b \in Agents : returned[1][a] # returned[1][b]

\* C16: with use_threads no worker task is running when the driver changes
\* the candidate price vector (or, back in tabu_search, the prices and the
\* history); a task works on the snapshot it was given, which stays equal
\* to the candidate for the whole call; and the driver combines the
\* per-agent results only when every task of the call has returned.
C16_DriverAndWorkersApart ==
    /\ pc \in {"step", "walked", "combine"} =>
           \A k \in 1..Len(futures) : futures[k].state = "done"
    /\ pc = "combine" =>
           /\ Len(futures) = NumAgents
           /\ Len(all_combinations_dict) = NumAgents
    /\ pc \in {"submit", "collect", "combine"} =>
           \A k \in 1..Len(futures) : futures[k].prices = updated_prices
    /\ \A k \in 1..Len(futures) :
           futures[k].state = "done" =>
               futures[k].result =
                   compute_best_bundles_for_student(futures[k].student, instance,
                       futures[k].prices, initial_budgets)
    /\ \A n \in 1..Len(all_combinations_dict) :
           /\ futures[n].state = "done"
           /\ all_combinations_dict[n] = << futures[n].student, futures[n].result >>

\* in a later call of the walk the driver waits for the first task while the
\* second has already returned
C16_Witness ==
    /\ pc = "collect"
    /\ iterations >= 2
    /\ futures[1].state = "running"
    /\ futures[2].state = "done"
    /\ all_combinations_dict = << >>
    /\ updated_prices # prices

\* a full-capacity bundle that the agent can afford with money t is
\* preferred to bundle: bundle is full itself, or no affordable full
\* combination has the raw value of bundle
FullPreferred(a, bundle, p, t) ==
    \/ Cardinality(bundle) = instance.agent_capacities[a]
    \/ ~ \E c \in Combinations(a) :
             /\ Cardinality(c) = instance.agent_capacities[a]
             /\ Price(p, c) <= t
             /\ Value(a, c) = Value(a, bundle)

\* window mode (ACEEI.py lines 235-236): the bundle recorded at a threshold
\* is never smaller than the capacity when a full combination of the same
\* raw value costs at most the threshold
WindowModePrefersFull ==
    call.fn = "student_best_bundle_per_budget" =>
        \A a \in Agents : \A t \in DOMAIN call.result[a] :
            FullPreferred(a, call.result[a][t], call.prices, t)

\* C17: the enumerator ranks a combination by its value plus the agent's
\* greatest value when it fills the capacity, in tabu mode as in window mode:
\* the allocation tabu_search takes from student_best_bundles at its prices
\* never gives an agent a bundle smaller than the capacity while a full
\* combination of the same raw value is within the agent's budget.
C17_FullBundlePreferred ==
    pc \in {"loop", "neighbors"} =>
        \A a \in Agents :
            FullPreferred(a, allocation[a], prices, initial_budgets[a])

\* C18: once the constraint-set of the state at a price vector is in the
\* history that vector is tabu, so tabu_search never moves to a price
\* vector it has visited before.
C18_NeverRevisitsPrices ==
    \A i \in 1..Len(visited), j \in 1..Len(visited) :
        i < j => visited[i].prices # visited[j].prices

\* C19: after every move the current state (prices, allocation, excess
\* demand, norm) is that of the first neighbor, in list order, whose norm is
\* least among all neighbors evaluated (errors holds the evaluation of every
\* neighbor of the list, in list order); the norm of the state left plays
\* no part.
C19_MovesToFirstBestNeighbor ==
    (pc = "loop" /\ iterations >= 1) =>
        /\ Len(errors) = Len(neighbors)
        /\ \A k \in 1..Len(neighbors) : errors[k].prices = neighbors[k]
        /\ \E i \in 1..Len(neighbors) :
               /\ prices = neighbors[i]
               /\ allocation = errors[i].allocation
               /\ excess_demand_vector = errors[i].excess_demand_vector
               /\ norma = errors[i].norma
               /\ \A j \in 1..Len(neighbors) : ~ norm_less(errors[j].norma, norma)
               /\ \A j \in 1..(i - 1) : norm_less(norma, errors[j].norma)

\* a move to a state worse than the one left, chosen among neighbors two
\* of which, at different prices, have the least norm
C19_Witness ==
    /\ pc = "loop"
    /\ iterations >= 1
    /\ norm_less(visited[Len(visited) - 1].norma, norma)
    /\ \E i \in 1..Len(neighbors), j \in 1..Len(neighbors) :
           /\ i < j
           /\ neighbors[i] # neighbors[j]
           /\ errors[i].norma = norma
           /\ errors[j].norma = norma

\* the neighbors that the walk of a course with positive excess demand contributed
RaisedIn(course) ==
    {k \in 1..Len(individual_price_adjustment_neighbors) :
         individual_price_adjustment_neighbors[k][course] > prices[course]}

RaisedBy(course, steps) == [prices EXCEPT ![course] = @ + steps * SqrtHalf]

\* the allocations re-evaluated at a candidate vector that differ from the
\* current one by exactly one agent losing the course
Matching(course, steps) ==
    LET new_allocations == best_bundles(RaisedBy(course, steps), instance,
                                        initial_budgets, use_threads)
    IN  {k \in 1..Len(new_allocations) :
             differ_in_one_value(allocation, new_allocations[k], course)}

\* the positions of a vector in the returned list
PositionsOf(vector) ==
    {k \in 1..Len(individual_price_adjustment_neighbors) :
         individual_price_adjustment_neighbors[k] = vector}

C21_AtMost35IndividualNeighbors ==
    call.fn = "find_individual_price_adjustment_neighbors" =>
        Len(call.result) <= MaxIndividualNeighbors

\* the vector of a course with negative excess demand: the prices of the
\* call with this course at zero
Snapped(course) == [call.prices EXCEPT ![course] = 0]

\* the courses in which a vector differs from the prices of the call
AdjustedIn(vector) == {j \in Items : vector[j] # call.prices[j]}

\* C22 as stated: every course with negative excess demand has its vector
\* in the list iff the vector is not tabu; a course with zero excess demand
\* contributes nothing; every vector of the list differs from the prices in
\* the adjusted course only.
C22_NegativeDemandSnapsToZero ==
    call.fn = "find_individual_price_adjustment_neighbors" =>
        /\ \A course \in Items :
               call.excess_demand_vector[course] < 0 =>
                   ((\E k \in 1..Len(call.result) : call.result[k] = Snapped(course))
                        <=> ~ is_tabu(Snapped(course), call.history))
        /\ \A course \in Items :
               call.excess_demand_vector[course] = 0 =>
                   \A k \in 1..Len(call.result) : course \notin AdjustedIn(call.result[k])
        /\ \A k \in 1..Len(call.result) : Cardinality(AdjustedIn(call.result[k])) <= 1

\* the number of vectors of the list in which the price of a course is raised
RaisedCount(course) ==
    Cardinality({k \in 1..Len(call.result) : call.result[k][course] > call.prices[course]})

RECURSIVE LengthBefore(_)
\* the length of the list when the turn of a course comes: the raised
\* vectors of the earlier courses with positive excess demand, and one vector
\* for every earlier course with negative excess demand whose turn came below
\* the cap and whose vector is not tabu
LengthBefore(course) ==
    IF course = 1 THEN 0
    ELSE LET earlier == course - 1
             before == LengthBefore(earlier)
         IN  before +
             (IF call.excess_demand_vector[earlier] > 0 THEN RaisedCount(earlier)
              ELSE IF /\ call.excess_demand_vector[earlier] < 0
                      /\ before < MaxIndividualNeighbors
                      /\ ~ is_tabu(Snapped(earlier), call.history)
                   THEN 1 ELSE 0)

\* C22 (amended): a course with negative excess demand whose turn comes while
\* the list holds fewer than 35 vectors has its vector appended at that place
\* iff the vector is not tabu; a tabu vector is nowhere in the list; a course
\* whose turn comes at 35 or more vectors, or whose excess demand is zero,
\* contributes nothing; every vector differs from the prices in one course
\* at most.
C22_ReachedNegativeDemandSnapsToZero ==
    call.fn = "find_individual_price_adjustment_neighbors" =>
        /\ \A course \in Items :
               call.excess_demand_vector[course] < 0 =>
                   /\ (LengthBefore(course) < MaxIndividualNeighbors
                          /\ ~ is_tabu(Snapped(course), call.history))
                        => /\ Len(call.result) > LengthBefore(course)
                           /\ call.result[LengthBefore(course) + 1] = Snapped(course)
                   /\ is_tabu(Snapped(course), call.history)
                        => \A k \in 1..Len(call.result) : call.result[k] # Snapped(course)
        /\ Len(call.result) = LengthBefore(NumItems + 1)
        /\ \A course \in Items :
               call.excess_demand_vector[course] = 0 =>
                   \A k \in 1..Len(call.result) : course \notin AdjustedIn(call.result[k])
        /\ \A k \in 1..Len(call.result) : Cardinality(AdjustedIn(call.result[k])) <= 1

\* a course with negative excess demand and a vector that is not tabu is cut
\* off by the cap: its vector is not in the list
C22_Witness ==
    /\ call.fn = "find_individual_price_adjustment_neighbors"
    /\ \E course \in Items :
           /\ call.excess_demand_vector[course] < 0
           /\ LengthBefore(course) >= MaxIndividualNeighbors
           /\ ~ is_tabu(Snapped(course), call.history)
           /\ call.prices[course] > 0
           /\ \A k \in 1..Len(call.result) : call.result[k] # Snapped(course)

\* the students the give_bundle loop has not come to yet
StillPending == { pending[i] : i \in 1..Len(pending) }

\* C23: bundles reach the sink only after an iteration whose clearing error
\* is zero; every student the loop has come to holds exactly the bundle
\* paired with the budget chosen for it in that iteration, the others hold
\* nothing; and when the function ends the prices are still the ones of that
\* iteration: at them the bundles given have clearing error zero and every
\* bundle costs at most the budget chosen with it.
C23_GivesTheZeroErrorBundles ==
    /\ (\E student \in Students : bundles[student] # {}) => pc \in {"give", "finished"}
    /\ pc \in {"give", "finished"} =>
           /\ norma = 0
           /\ \A student \in Students :
                  bundles[student] = IF student \in StillPending THEN {}
                                     ELSE new_budgets[student][2]
    /\ pc = "finished" =>
           /\ pending = << >>
           /\ linalg_norm(clipped_excess_demand(instance, prices, bundles,
                                                keys(bundles))) = 0
           /\ \A student \in Students :
                  Price(prices, bundles[student]) <= new_budgets[student][1]

\* the function has ended after at least one price update, and some student
\* holds a course
C23_Witness ==
    /\ pc = "finished"
    /\ \E key \in Items : prices[key] # 0
    /\ \E student \in Students : bundles[student] # {}
    /\ \A student \in Students : bundles[student] = new_budgets[student][2]

\* C24: in tabu_search no price is negative: not in the current prices, not
\* in the best-known prices, not in a generated neighbor, not in the prices
\* of a visited state.
C24_NoNegativePrice ==
    pc # "idle" =>
        /\ \A course \in Items : prices[course] >= 0
        /\ best_prices # << >> => \A course \in Items : best_prices[course] >= 0
        /\ \A k \in 1..Len(neighbors) : \A course \in Items : neighbors[k][course] >= 0
        /\ \A k \in 1..Len(visited) : \A course \in Items : visited[k].prices[course] >= 0

\* a gradient step was floored at zero, an individual adjustment set a
\* positive price to zero, and another raised a price
C24_Witness ==
    /\ pc = "neighbors"
    /\ \E k \in 1..Len(gradient_neighbors) : \E course \in Items :
           /\ gradient_neighbors[k][course] = 0
           /\ \E d \in { delta[i] : i \in 1..Len(delta) } :
                  prices[course] + d * excess_demand_vector[course] < 0
    /\ \E k \in 1..Len(individual_price_adjustment_neighbors) : \E course \in Items :
           /\ individual_price_adjustment_neighbors[k][course] = 0
           /\ prices[course] > 0
    /\ \E k \in 1..Len(individual_price_adjustment_neighbors) : \E course \in Items :
           individual_price_adjustment_neighbors[k][course] > prices[course]

\* the (agent, item) pairs the commit loops have not come to yet
PendingPairs == { pending[i] : i \in 1..Len(pending) }

\* the agents committed before this one that hold the item
EarlierHolders(agent, item) == { b \in Agents : b < agent /\ item \in bundles[b] }

\* C25: in the commit pass every agent holds a subset of its best-known
\* bundle; an item of that bundle the loops have come to is withheld only if
\* the agents committed earlier hold all its seats; and the pass goes on to
\* the end: when tabu_search returns no pair is left and every item of every
\* best-known bundle was given or had no seat left.
C25_WithheldOnlyWithoutCapacity ==
    pc \in {"commit", "done"} =>
        /\ \A agent \in Agents :
               /\ bundles[agent] \subseteq best_allocation[agent]
               /\ \A item \in bundles[agent] : << agent, item >> \notin PendingPairs
               /\ \A item \in best_allocation[agent] \ bundles[agent] :
                      \/ << agent, item >> \in PendingPairs
                      \/ Cardinality(EarlierHolders(agent, item))
                             = instance.item_capacities[item]
        /\ pc = "done" => pending = << >>

\* tabu_search has returned, an item was withheld from an agent, and the same
\* agent was given a later item of its bundle
C25_Witness ==
    /\ pc = "done"
    /\ \E agent \in Agents :
           \E item \in best_allocation[agent] \ bundles[agent] :
               \E later \in bundles[agent] : later > item

\* C26: student_best_bundle_per_budget records at least one budget for every
\* agent, and an agent with no combination priced at most budget + epsilon
\* has an entry whose bundle is empty.
C26_EveryAgentHasAnEntry ==
    call.fn = "student_best_bundle_per_budget" =>
        \A a \in Agents :
            /\ DOMAIN call.result[a] # {}
            /\ (\A c \in Combinations(a) :
                    Price(call.prices, c) > initial_budgets[a] + call.epsilon)
                   => \E t \in DOMAIN call.result[a] : call.result[a][t] = {}

\* C27: every budget student_best_bundle_per_budget records for an agent
\* lies in [initial budget - epsilon, initial budget + epsilon], the bundle
\* recorded at it costs at most that budget, and at most one recorded budget
\* is at the lower end of the window: every other one is above it.
C27_CandidateBudgetsInWindow ==
    call.fn = "student_best_bundle_per_budget" =>
        \A a \in Agents :
            LET recorded == call.result[a]
                min_budget == initial_budgets[a] - call.epsilon
                max_budget == initial_budgets[a] + call.epsilon
            IN  /\ \A t \in DOMAIN recorded :
                       /\ min_budget <= t
                       /\ t <= max_budget
                       /\ Price(call.prices, recorded[t]) <= t
                /\ Cardinality({t \in DOMAIN recorded : t <= min_budget}) <= 1

\* an agent with a recorded budget at each end of the window and one inside
C27_Witness ==
    /\ call.fn = "student_best_bundle_per_budget"
    /\ \E a \in Agents :
           /\ (initial_budgets[a] - call.epsilon) \in DOMAIN call.result[a]
           /\ (initial_budgets[a] + call.epsilon) \in DOMAIN call.result[a]
           /\ \E t \in DOMAIN call.result[a] :
                  /\ initial_budgets[a] - call.epsilon < t
                  /\ t < initial_budgets[a] + call.epsilon

\* C28: when tabu_search leaves the loop on a zero norm, the best-known
\* state is the current one, no item of the best-known allocation is demanded
\* by more agents than it has seats, and the commit pass withholds nothing:
\* every pair the loops have come to was given, and on return every agent
\* holds its whole best-known bundle.
C28_ZeroNormCommitsEverything ==
    (pc \in {"commit", "done"} /\ norma = 0) =>
        /\ best_allocation = allocation
        /\ best_prices = prices
        /\ best_norma = 0
        /\ \A item \in Items :
               Demand(best_allocation, item) <= instance.item_capacities[item]
        /\ \A agent \in Agents :
               \A item \in best_allocation[agent] \ bundles[agent] :
                   << agent, item >> \in PendingPairs
        /\ pc = "done" => \A agent \in Agents : bundles[agent] = best_allocation[agent]

\* tabu_search has returned on a zero norm reached by a move; a course is
\* full, and a free course has seats left
C28_Witness ==
    /\ pc = "done"
    /\ norma = 0
    /\ iterations > 0
    /\ \E item \in Items : Demand(bundles, item) = instance.item_capacities[item]
    /\ \E item \in Items :
           /\ prices[item] = 0
           /\ Demand(bundles, item) < instance.item_capacities[item]

====
